---- MODULE Spec2Model ----
(***************************************************************************)
(* Blocking adapters over a bounded mpsc channel (src/src/mpsc.rs).        *)
(*                                                                         *)
(* The adapters BlockingRecv / BlockingSend are modelled from the source.  *)
(* The channel itself (tokio::sync::mpsc) is an external collaborator: its *)
(* four primitives try_recv, recv, try_send, send are modelled from the    *)
(* collaborator interface (value | empty | closed, ok | full | closed).    *)
(*                                                                         *)
(* A thread calling an adapter is a small state machine:                   *)
(*   idle      no call in progress                                         *)
(*   fallback  the optimistic attempt saw Empty / Full, the adapter is     *)
(*             about to call the always-blocking variant                   *)
(*   blocked   inside futures::executor::block_on(recv()/send(m)): the     *)
(*             thread is parked until the future resolves                  *)
(*   dropped   the handle was dropped                                      *)
(***************************************************************************)
EXTENDS Naturals, Sequences, FiniteSets, TLC

\* ------------------------------------------------------------------ bounds
MaxCap == 2         \* channel capacities 1..MaxCap are explored
MaxSend == 2        \* send calls per Sender handle
MaxRecv == 4        \* receive calls of the consumer

Senders == {"tx1", "tx2"}

NoMsg == <<"none", 0>>
None == <<"None">>
Some(v) == <<"Some", v>>
Ok == <<"Ok">>
SendError(v) == <<"SendError", v>>
NoRet == <<"NoRet">>

VARIABLES
    cap,        \* capacity the channel was created with
    chan,       \* the channel buffer, head first
    spc,        \* [Senders -> idle | fallback | blocked | dropped]
    sop,        \* [Senders -> none | optimistic | blocking]: operation of the current/last call
    smsg,       \* [Senders -> message of the call in progress, or NoMsg]
    sret,       \* [Senders -> result of the last completed call]
    scalls,     \* [Senders -> number of send calls started]
    ssusp,      \* [Senders -> the current/last call invoked the suspending send]
    sdeq,       \* [Senders -> a message was dequeued since the current call began]
    rpc,        \* idle | fallback | blocked | dropped
    rop,        \* none | optimistic | blocking
    rret,       \* result of the last completed receive
    rcalls,     \* number of receive calls started
    rsusp,      \* the current/last receive invoked the suspending recv
    okSent,     \* [Senders -> messages whose send returned Ok, in return order]
    enq,        \* every message ever enqueued, in enqueue order
    received,   \* every value returned as Some by a receive, in return order
    nonesBy     \* the receive variants that have returned None so far

svars == <<spc, sop, smsg, sret, scalls, ssusp, sdeq>>
rvars == <<rpc, rop, rret, rcalls, rsusp>>
hvars == <<okSent, enq, received, nonesBy>>
vars == <<cap, chan, svars, rvars, hvars>>

\* --------------------------------------------------------- channel handles
SendersAlive == {s \in Senders : spc[s] # "dropped"}
tx_closed == SendersAlive = {}      \* all Sender handles dropped
rx_closed == rpc = "dropped"        \* the Receiver handle dropped

\* ------------------------------------------- channel primitives (collaborator)
\* try_recv() -> {value | empty | closed}
try_recv(buf, txclosed) ==
    IF buf # <<>> THEN [tag |-> "Ok", val |-> Head(buf), buf |-> Tail(buf)]
    ELSE IF txclosed THEN [tag |-> "Closed", val |-> NoMsg, buf |-> buf]
    ELSE [tag |-> "Empty", val |-> NoMsg, buf |-> buf]

\* recv() [suspending] resolves once a value is buffered or the channel is closed
recv_ready(buf, txclosed) == buf # <<>> \/ txclosed

\* recv() -> {value | closed}, as Option<T>
recv(buf, txclosed) ==
    IF buf # <<>> THEN [ret |-> Some(Head(buf)), buf |-> Tail(buf)]
    ELSE [ret |-> None, buf |-> buf]

\* try_send(T) -> {ok | full(T) | closed(T)}
try_send(buf, capacity, rxclosed, m) ==
    IF rxclosed THEN [tag |-> "Closed", val |-> m, buf |-> buf]
    ELSE IF Len(buf) >= capacity THEN [tag |-> "Full", val |-> m, buf |-> buf]
    ELSE [tag |-> "Ok", val |-> NoMsg, buf |-> Append(buf, m)]

\* Mutant: the suspending send does not wait for free capacity.
send_ready_noWait(buf, capacity, rxclosed) == TRUE

\* send(T) [suspending] resolves once capacity is free or the Receiver is gone
send_ready(buf, capacity, rxclosed) == rxclosed \/ Len(buf) < capacity

\* send(T) -> {ok | closed(T)}, as Result<(), SendError<T>>
send(buf, capacity, rxclosed, m) ==
    IF rxclosed THEN [ret |-> SendError(m), buf |-> buf]
    ELSE [ret |-> Ok, buf |-> Append(buf, m)]

\* ------------------------------------------------ adapters (src/src/mpsc.rs)
\* Mutant: Empty is answered with None instead of falling back to blocking_recv.
optimistic_blocking_recv_emptyNone(buf, txclosed) ==
    LET r == try_recv(buf, txclosed) IN
    CASE r.tag = "Ok"     -> [next |-> "idle", ret |-> Some(r.val), buf |-> r.buf]
      [] r.tag = "Empty"  -> [next |-> "idle", ret |-> None, buf |-> r.buf]
      [] r.tag = "Closed" -> [next |-> "idle", ret |-> None, buf |-> r.buf]

\* Mutant: the try_recv attempt is left out, every call goes to blocking_recv.
optimistic_blocking_recv_noTry(buf, txclosed) ==
    [next |-> "fallback", ret |-> NoRet, buf |-> buf]

\* Mutant: Closed is handled like Empty, the call goes on to blocking_recv.
optimistic_blocking_recv_closedBlocks(buf, txclosed) ==
    LET r == try_recv(buf, txclosed) IN
    CASE r.tag = "Ok"     -> [next |-> "idle", ret |-> Some(r.val), buf |-> r.buf]
      [] r.tag = "Empty"  -> [next |-> "fallback", ret |-> NoRet, buf |-> r.buf]
      [] r.tag = "Closed" -> [next |-> "fallback", ret |-> NoRet, buf |-> r.buf]

\* Mutant: only Closed is matched, a value taken by try_recv is discarded.
optimistic_blocking_recv_dropsValue(buf, txclosed) ==
    LET r == try_recv(buf, txclosed) IN
    CASE r.tag = "Closed" -> [next |-> "idle", ret |-> None, buf |-> r.buf]
      [] OTHER            -> [next |-> "fallback", ret |-> NoRet, buf |-> r.buf]

\* BlockingRecv::optimistic_blocking_recv: the match on try_recv().
\* next = "fallback" stands for the call of self.blocking_recv().
optimistic_blocking_recv(buf, txclosed) ==
    LET r == try_recv(buf, txclosed) IN
    CASE r.tag = "Ok"     -> [next |-> "idle", ret |-> Some(r.val), buf |-> r.buf]
      [] r.tag = "Empty"  -> [next |-> "fallback", ret |-> NoRet, buf |-> r.buf]
      [] r.tag = "Closed" -> [next |-> "idle", ret |-> None, buf |-> r.buf]

\* Mutant: the parked thread is not woken when the channel closes.
blocking_recv_noWakeOnClose(buf, txclosed) ==
    LET r == recv(buf, txclosed) IN
    IF r.ret = None THEN [next |-> "blocked", ret |-> NoRet, buf |-> buf]
    ELSE [next |-> "idle", ret |-> r.ret, buf |-> r.buf]

\* BlockingRecv::blocking_recv: block_on(self.recv()) hands back what recv resolved to.
blocking_recv(buf, txclosed) ==
    LET r == recv(buf, txclosed) IN
    [next |-> "idle", ret |-> r.ret, buf |-> r.buf]

\* Mutant: Full is answered with Ok(()), the message is never retried.
optimistic_blocking_send_lostOnFull(buf, capacity, rxclosed, m) ==
    LET r == try_send(buf, capacity, rxclosed, m) IN
    CASE r.tag = "Ok"     -> [next |-> "idle", ret |-> Ok, msg |-> NoMsg, buf |-> r.buf]
      [] r.tag = "Closed" -> [next |-> "idle", ret |-> SendError(r.val), msg |-> NoMsg, buf |-> r.buf]
      [] r.tag = "Full"   -> [next |-> "idle", ret |-> Ok, msg |-> NoMsg, buf |-> r.buf]

\* Mutant: Closed is answered with Ok(()), the rejected message is swallowed.
optimistic_blocking_send_closedOk(buf, capacity, rxclosed, m) ==
    LET r == try_send(buf, capacity, rxclosed, m) IN
    CASE r.tag = "Ok"     -> [next |-> "idle", ret |-> Ok, msg |-> NoMsg, buf |-> r.buf]
      [] r.tag = "Closed" -> [next |-> "idle", ret |-> Ok, msg |-> NoMsg, buf |-> r.buf]
      [] r.tag = "Full"   -> [next |-> "fallback", ret |-> NoRet, msg |-> r.val, buf |-> r.buf]

\* BlockingSend::optimistic_blocking_send: the match on try_send(message).
\* next = "fallback" stands for the call of self.blocking_send(value).
optimistic_blocking_send(buf, capacity, rxclosed, m) ==
    LET r == try_send(buf, capacity, rxclosed, m) IN
    CASE r.tag = "Ok"     -> [next |-> "idle", ret |-> Ok, msg |-> NoMsg, buf |-> r.buf]
      [] r.tag = "Closed" -> [next |-> "idle", ret |-> SendError(r.val), msg |-> NoMsg, buf |-> r.buf]
      [] r.tag = "Full"   -> [next |-> "fallback", ret |-> NoRet, msg |-> r.val, buf |-> r.buf]

\* Mutant: the parked thread is not woken when the Receiver is dropped.
blocking_send_noWakeOnClose(buf, capacity, rxclosed, m) ==
    LET r == send(buf, capacity, rxclosed, m) IN
    IF r.ret = Ok THEN [next |-> "idle", ret |-> r.ret, msg |-> NoMsg, buf |-> r.buf]
    ELSE [next |-> "blocked", ret |-> NoRet, msg |-> m, buf |-> buf]

\* Mutant: the result of send is discarded and Ok(()) returned.
blocking_send_ignoresErr(buf, capacity, rxclosed, m) ==
    LET r == send(buf, capacity, rxclosed, m) IN
    [next |-> "idle", ret |-> Ok, msg |-> NoMsg, buf |-> r.buf]

\* BlockingSend::blocking_send: block_on(self.send(message)) hands back what send resolved to.
blocking_send(buf, capacity, rxclosed, m) ==
    LET r == send(buf, capacity, rxclosed, m) IN
    [next |-> "idle", ret |-> r.ret, msg |-> NoMsg, buf |-> r.buf]

\* ------------------------------------------------------------------- state
Caps == 1..MaxCap

\* The message of a Sender's k-th call: distinct per handle and per call.
Msg(s, k) == <<s, k>>

Init ==
    /\ cap \in Caps
    /\ chan = <<>>
    /\ spc = [s \in Senders |-> "idle"]
    /\ sop = [s \in Senders |-> "none"]
    /\ smsg = [s \in Senders |-> NoMsg]
    /\ sret = [s \in Senders |-> NoRet]
    /\ scalls = [s \in Senders |-> 0]
    /\ ssusp = [s \in Senders |-> FALSE]
    /\ sdeq = [s \in Senders |-> FALSE]
    /\ rpc = "idle"
    /\ rop = "none"
    /\ rret = NoRet
    /\ rcalls = 0
    /\ rsusp = FALSE
    /\ okSent = [s \in Senders |-> <<>>]
    /\ enq = <<>>
    /\ received = <<>>
    /\ nonesBy = {}

\* ------------------------------------------------------- history bookkeeping
\* What one step of a send does to the histories, given its outcome r for m.
SendEffect(s, m, r) ==
    /\ chan' = r.buf
    /\ spc' = [spc EXCEPT ![s] = r.next]
    /\ smsg' = [smsg EXCEPT ![s] = r.msg]
    /\ sret' = [sret EXCEPT ![s] = r.ret]
    /\ okSent' = IF r.ret = Ok THEN [okSent EXCEPT ![s] = Append(@, m)] ELSE okSent
    /\ enq' = IF r.buf # chan THEN Append(enq, m) ELSE enq
    /\ UNCHANGED nonesBy

\* What one step of a receive of variant op does, given its outcome r.
RecvEffect(op, r) ==
    /\ chan' = r.buf
    /\ nonesBy' = IF r.ret = None THEN nonesBy \cup {op} ELSE nonesBy
    /\ rpc' = r.next
    /\ rret' = r.ret
    /\ received' = IF r.ret[1] = "Some" THEN Append(received, r.ret[2]) ELSE received
    /\ sdeq' = IF r.buf # chan
                 THEN [s \in Senders |-> IF spc[s] \in {"fallback", "blocked"} THEN TRUE ELSE sdeq[s]]
                 ELSE sdeq

\* ------------------------------------------------------------ sender actions
\* tx.optimistic_blocking_send(m) is called: the try_send attempt.
OptimisticBlockingSend(s) ==
    /\ spc[s] = "idle"
    /\ scalls[s] < MaxSend
    /\ LET m == Msg(s, scalls[s] + 1) IN
       SendEffect(s, m, optimistic_blocking_send(chan, cap, rx_closed, m))
    /\ sop' = [sop EXCEPT ![s] = "optimistic"]
    /\ scalls' = [scalls EXCEPT ![s] = @ + 1]
    /\ ssusp' = [ssusp EXCEPT ![s] = FALSE]
    /\ sdeq' = [sdeq EXCEPT ![s] = FALSE]
    /\ UNCHANGED <<cap, rvars, received>>

\* The Full branch calls self.blocking_send(value): the suspending send is invoked.
OptimisticSendFallback(s) ==
    /\ spc[s] = "fallback"
    /\ spc' = [spc EXCEPT ![s] = "blocked"]
    /\ ssusp' = [ssusp EXCEPT ![s] = TRUE]
    /\ UNCHANGED <<cap, chan, sop, smsg, sret, scalls, sdeq, rvars, hvars>>

\* tx.blocking_send(m) is called: the suspending send is invoked.
BlockingSend(s) ==
    /\ spc[s] = "idle"
    /\ scalls[s] < MaxSend
    /\ spc' = [spc EXCEPT ![s] = "blocked"]
    /\ sop' = [sop EXCEPT ![s] = "blocking"]
    /\ smsg' = [smsg EXCEPT ![s] = Msg(s, scalls[s] + 1)]
    /\ scalls' = [scalls EXCEPT ![s] = @ + 1]
    /\ ssusp' = [ssusp EXCEPT ![s] = TRUE]
    /\ sdeq' = [sdeq EXCEPT ![s] = FALSE]
    /\ sret' = [sret EXCEPT ![s] = NoRet]
    /\ UNCHANGED <<cap, chan, rvars, hvars>>

\* block_on(self.send(m)) resolves: the parked thread returns.
BlockingSendResolve(s) ==
    /\ spc[s] = "blocked"
    /\ send_ready(chan, cap, rx_closed)
    /\ SendEffect(s, smsg[s], blocking_send(chan, cap, rx_closed, smsg[s]))
    /\ UNCHANGED <<cap, sop, scalls, ssusp, sdeq, rvars, received>>

\* The Sender handle goes out of scope (end of the producer closure).
DropSender(s) ==
    /\ spc[s] = "idle"
    /\ spc' = [spc EXCEPT ![s] = "dropped"]
    /\ UNCHANGED <<cap, chan, sop, smsg, sret, scalls, ssusp, sdeq, rvars, hvars>>

\* ---------------------------------------------------------- receiver actions
\* rx.optimistic_blocking_recv() is called: the try_recv attempt.
OptimisticBlockingRecv ==
    /\ rpc = "idle"
    /\ rcalls < MaxRecv
    /\ RecvEffect("optimistic", optimistic_blocking_recv(chan, tx_closed))
    /\ rop' = "optimistic"
    /\ rcalls' = rcalls + 1
    /\ rsusp' = FALSE
    /\ UNCHANGED <<cap, spc, sop, smsg, sret, scalls, ssusp, okSent, enq>>

\* The Empty branch calls self.blocking_recv(): the suspending recv is invoked.
OptimisticRecvFallback ==
    /\ rpc = "fallback"
    /\ rpc' = "blocked"
    /\ rsusp' = TRUE
    /\ UNCHANGED <<cap, chan, svars, rop, rret, rcalls, hvars>>

\* rx.blocking_recv() is called: the suspending recv is invoked.
BlockingRecv ==
    /\ rpc = "idle"
    /\ rcalls < MaxRecv
    /\ rpc' = "blocked"
    /\ rop' = "blocking"
    /\ rcalls' = rcalls + 1
    /\ rsusp' = TRUE
    /\ rret' = NoRet
    /\ UNCHANGED <<cap, chan, svars, hvars>>

\* block_on(self.recv()) resolves: the parked thread returns.
BlockingRecvResolve ==
    /\ rpc = "blocked"
    /\ recv_ready(chan, tx_closed)
    /\ RecvEffect(rop, blocking_recv(chan, tx_closed))
    /\ UNCHANGED <<cap, spc, sop, smsg, sret, scalls, ssusp, rop, rcalls, rsusp, okSent, enq>>

\* The Receiver handle goes out of scope: the channel closes for senders and
\* the messages still buffered are dropped with it.
DropReceiver ==
    /\ rpc = "idle"
    /\ rpc' = "dropped"
    /\ chan' = <<>>
    /\ UNCHANGED <<cap, svars, rop, rret, rcalls, rsusp, hvars>>

Next ==
    \/ \E s \in Senders : OptimisticBlockingSend(s)
    \/ \E s \in Senders : OptimisticSendFallback(s)
    \/ \E s \in Senders : BlockingSend(s)
    \/ \E s \in Senders : BlockingSendResolve(s)
    \/ \E s \in Senders : DropSender(s)
    \/ OptimisticBlockingRecv
    \/ OptimisticRecvFallback
    \/ BlockingRecv
    \/ BlockingRecvResolve
    \/ DropReceiver

Spec == Init /\ [][Next]_vars

\* block_on drives the future until it resolves: a parked thread whose future
\* can resolve is woken and returns; a thread past its optimistic attempt goes
\* on to the blocking call.
Fairness ==
    /\ WF_vars(BlockingRecvResolve)
    /\ WF_vars(OptimisticRecvFallback)
    /\ \A s \in Senders : WF_vars(BlockingSendResolve(s))
    /\ \A s \in Senders : WF_vars(OptimisticSendFallback(s))

FairSpec == Spec /\ Fairness

\* ============================================================ properties
IsPrefix(a, b) == Len(a) <= Len(b) /\ a = SubSeq(b, 1, Len(a))

\* A send call of s returns in this step (at once, or when its future resolves).
SendReturns(s) == spc'[s] = "idle" /\ (spc[s] # "idle" \/ scalls'[s] # scalls[s])

\* A receive call returns in this step.
RecvReturns == rpc' = "idle" /\ (rpc # "idle" \/ rcalls' # rcalls)

\* optimistic_blocking_send / optimistic_blocking_recv is called in this step.
OptSendCalled(s) == spc[s] = "idle" /\ scalls'[s] # scalls[s] /\ sop'[s] = "optimistic"
OptRecvCalled == rpc = "idle" /\ rcalls' # rcalls /\ rop' = "optimistic"

\* The message passed to the call of s that is in progress or was completed last.
CallMsg(s) == Msg(s, scalls[s])

\* s is the only Sender handle that was ever sent through.
OnlyProducer(s) == \A t \in Senders \ {s} : scalls[t] = 0

\* The calls of s that returned Ok did so in call order.
InCallOrder(q) == \A i, j \in 1..Len(q) : i < j => q[i][2] < q[j][2]

\* ---------------------------------------------------------------------- C1
\* C1: the messages one producer sent through one Sender handle (with either
\* send variant) are received (with either receive variant) exactly in the
\* order sent: what was received so far is a prefix of what was sent, what was
\* received plus what is still buffered is exactly what was sent, so a
\* drained channel has delivered every message once, in order.
C1_OrderPreserved ==
    \A s \in Senders : OnlyProducer(s) =>
        /\ InCallOrder(okSent[s])
        /\ IsPrefix(received, okSent[s])
        /\ (~rx_closed => received \o chan = okSent[s])

C1_Witness ==
    \E s \in Senders :
        /\ OnlyProducer(s)
        /\ ~rx_closed /\ chan = <<>> /\ spc[s] = "idle"
        /\ Len(received) >= 2 /\ received = okSent[s]
        /\ ssusp[s] /\ sop[s] = "optimistic"

\* ---------------------------------------------------------------------- C2
\* C2: once all Sender handles are dropped and the buffer is drained, every
\* receive that returns returns None and leaves the channel closed and empty,
\* whichever variant is called and however often, and a receive in progress
\* (in its fallback or inside blocking_recv) eventually returns: its future
\* can resolve, the thread is not parked for good.
C2_ClosedSentinel ==
    /\ [][(tx_closed /\ chan = <<>>) =>
            /\ (RecvReturns => rret' = None /\ chan' = <<>>)
            /\ (tx_closed' /\ chan' = <<>>)
            /\ (rpc' = "blocked" => recv_ready(chan', tx_closed'))]_vars
    /\ (tx_closed /\ chan = <<>> /\ rpc \in {"fallback", "blocked"}) ~> (rpc = "idle")

C2_Witness ==
    /\ tx_closed /\ chan = <<>> /\ rpc = "idle"
    /\ nonesBy = {"optimistic", "blocking"}
    /\ rret = None

\* ---------------------------------------------------------------------- C3
\* C3: with the Receiver dropped, every send call that returns (either
\* variant, any Sender) returns SendError carrying exactly the message it
\* was called with.
C3_SendAfterClose ==
    [][\A s \in Senders :
          (rx_closed /\ SendReturns(s)) => sret'[s] = SendError(Msg(s, scalls'[s]))]_vars

C3_Witness ==
    /\ rx_closed
    /\ \E s, t \in Senders :
          /\ sop[s] = "optimistic" /\ sop[t] = "blocking"
          /\ spc[s] = "idle" /\ spc[t] = "idle"
          /\ sret[s] = SendError(CallMsg(s)) /\ sret[t] = SendError(CallMsg(t))

\* ---------------------------------------------------------------------- C4
\* C4: an optimistic_blocking_send that found the channel full (took the
\* fallback) returns Ok only after the consumer removed a buffered message
\* since the call began, and on returning Ok its message sits in the channel
\* behind the messages already buffered; while the Receiver is alive every
\* message whose send returned Ok is still buffered or was delivered.
C4_FullFallback ==
    /\ [][\A s \in Senders :
            (SendReturns(s) /\ sop'[s] = "optimistic" /\ ssusp'[s] /\ sret'[s] = Ok) =>
                /\ sdeq'[s]
                /\ chan' = Append(chan, Msg(s, scalls'[s]))]_vars
    /\ [](~rx_closed =>
            \A s \in Senders : \A i \in 1..Len(okSent[s]) :
                \E j \in 1..Len(received \o chan) : (received \o chan)[j] = okSent[s][i])

C4_Witness ==
    \E s \in Senders :
        /\ cap = 1
        /\ sop[s] = "optimistic" /\ ssusp[s] /\ sdeq[s]
        /\ spc[s] = "idle" /\ sret[s] = Ok
        /\ \E i \in 1..Len(received) : received[i] = CallMsg(s)

\* ---------------------------------------------------------------------- C5
\* C5: the fast path never blocks: optimistic_blocking_send called on a
\* non-full channel with the Receiver alive returns Ok in the same step,
\* without invoking the suspending send; optimistic_blocking_recv called on a
\* non-empty channel returns Some(head) in the same step, without invoking
\* the suspending recv.
C5_FastPath ==
    [][/\ \A s \in Senders :
            (OptSendCalled(s) /\ ~rx_closed /\ Len(chan) < cap) =>
                spc'[s] = "idle" /\ sret'[s] = Ok /\ ~ssusp'[s]
       /\ (OptRecvCalled /\ chan # <<>>) =>
                rpc' = "idle" /\ rret' = Some(Head(chan)) /\ ~rsusp']_vars

C5_Witness ==
    /\ rop = "optimistic" /\ rpc = "idle" /\ ~rsusp /\ rret[1] = "Some"
    /\ \E s \in Senders :
          sop[s] = "optimistic" /\ spc[s] = "idle" /\ ~ssusp[s] /\ sret[s] = Ok

\* ---------------------------------------------------------------------- C6
\* C6: the optimistic variants are observably the always-blocking variants:
\* when optimistic_blocking_recv returns at once, blocking_recv called in the
\* same channel state resolves at once with the same value and the same
\* buffer; when it does not, blocking_recv would park too, the channel is
\* left untouched and the call goes on as blocking_recv. The same for
\* optimistic_blocking_send(m) and blocking_send(m), the fallback retrying m.
C6_VariantsEquivalent ==
    [][/\ OptRecvCalled =>
            IF rpc' = "idle"
            THEN /\ recv_ready(chan, tx_closed)
                 /\ rret' = recv(chan, tx_closed).ret
                 /\ chan' = recv(chan, tx_closed).buf
            ELSE /\ ~recv_ready(chan, tx_closed)
                 /\ chan' = chan /\ rpc' = "fallback"
       /\ \A s \in Senders : OptSendCalled(s) =>
            IF spc'[s] = "idle"
            THEN /\ send_ready(chan, cap, rx_closed)
                 /\ sret'[s] = send(chan, cap, rx_closed, Msg(s, scalls'[s])).ret
                 /\ chan' = send(chan, cap, rx_closed, Msg(s, scalls'[s])).buf
            ELSE /\ ~send_ready(chan, cap, rx_closed)
                 /\ chan' = chan /\ spc'[s] = "fallback"
                 /\ smsg'[s] = Msg(s, scalls'[s])]_vars

C6_Witness ==
    /\ rop = "optimistic" /\ rpc = "idle" /\ ~rsusp /\ rret = None
    /\ \E s \in Senders : sop[s] = "optimistic" /\ ssusp[s] /\ sret[s] = Ok
    /\ \E s \in Senders : sop[s] = "optimistic" /\ ~ssusp[s] /\ sret[s] = Ok

\* ---------------------------------------------------------------------- C7
\* C7: a receive (either variant) returns None only when all Sender handles
\* are dropped and the buffer is empty, and by then every message ever
\* enqueued has been returned as Some, in enqueue order.
C7_NoneOnlyWhenClosedEmpty ==
    [][(RecvReturns /\ rret' = None) =>
          /\ tx_closed /\ chan = <<>> /\ chan' = <<>>
          /\ received' = enq']_vars

C7_Witness ==
    /\ rret = None /\ rpc = "idle"
    /\ Len(enq) >= 2 /\ received = enq
    /\ nonesBy = {"blocking"}

\* ---------------------------------------------------------------------- C8
\* C8: with several Sender handles in use, the messages of each single
\* Sender are received in the order in which its calls returned Ok.
FromSender(q, s) == SelectSeq(q, LAMBDA m : m[1] = s)

C8_PerSenderOrder ==
    \A s \in Senders :
        /\ IsPrefix(FromSender(received, s), okSent[s])
        /\ (~rx_closed => FromSender(received \o chan, s) = okSent[s])

C8_Witness ==
    /\ \A s \in Senders : Len(FromSender(received, s)) >= 2
    /\ \E s \in Senders : sop[s] = "optimistic" /\ ssusp[s]
    /\ \E s \in Senders : sop[s] = "blocking"
    /\ received[1][1] # received[2][1]

\* ---------------------------------------------------------------------- C9
\* C9: the number of buffered messages never exceeds the capacity.
C9_Bounded == Len(chan) <= cap

C9_Witness ==
    /\ Len(chan) = cap
    /\ \E s \in Senders : spc[s] = "blocked" /\ sop[s] = "optimistic"
    /\ \E s \in Senders : spc[s] = "blocked" /\ sop[s] = "blocking"

\* --------------------------------------------------------------------- C10
\* C10: a thread inside blocking_recv (called directly or as the fallback of
\* optimistic_blocking_recv) whose channel holds a message or has lost all
\* its Senders eventually returns; it returns Some(head) when a message is
\* buffered and None only when the channel is closed and empty.
C10_ParkedRecvReturns ==
    /\ (rpc = "blocked" /\ recv_ready(chan, tx_closed)) ~> (rpc = "idle")
    /\ [][(rpc = "blocked" /\ RecvReturns) =>
            IF chan # <<>> THEN rret' = Some(Head(chan)) /\ chan' = Tail(chan)
            ELSE tx_closed /\ rret' = None]_vars

C10_Witness ==
    /\ rpc = "idle" /\ rsusp /\ rop = "optimistic"
    /\ nonesBy = {"optimistic"} /\ rret = None
    /\ Len(received) >= 1

\* --------------------------------------------------------------------- C11
\* C11: a thread inside blocking_send(m) (called directly or as the fallback
\* of optimistic_blocking_send) returns once the Receiver is dropped, and does
\* not stay parked while the channel has free capacity: it returns (always
\* so when it is the only Sender left), or the capacity is gone again (taken
\* by another Sender, the arbitration between Senders being the channel's). When it returns with the Receiver alive the
\* result is Ok, capacity was free and m is enqueued at the tail; when it
\* returns with the Receiver dropped the result is SendError(m), the buffer
\* is unchanged and m was never enqueued.
InSeq(m, q) == \E i \in 1..Len(q) : q[i] = m

C12_ClosedTerminal ==
    [][rx_closed =>
          /\ rx_closed'
          /\ chan' = chan /\ enq' = enq /\ okSent' = okSent
          /\ \A s \in Senders : SendReturns(s) => sret'[s][1] = "SendError"]_vars

C12_Witness ==
    /\ rx_closed /\ Len(chan) < cap
    /\ \E s, t \in Senders :
          /\ s # t
          /\ scalls[s] >= 2 /\ spc[s] = "idle" /\ okSent[s] = <<>>
          /\ sret[s][1] = "SendError" /\ sop[s] = "blocking"
          /\ spc[t] = "idle" /\ sret[t][1] = "SendError" /\ sop[t] = "optimistic"
          /\ Len(okSent[t]) >= 1

\* --------------------------------------------------------------------- C13
\* C13: on a closed channel the optimistic variants answer on their first,
\* non-blocking attempt: optimistic_blocking_send(m) called with the Receiver
\* dropped returns SendError(m) in the step of the call, the suspending send
\* never invoked; optimistic_blocking_recv called with all Senders dropped
\* and the buffer empty returns None in the step of the call, the suspending
\* recv never invoked.
C13_ClosedAnsweredAtOnce ==
    [][/\ \A s \in Senders : (OptSendCalled(s) /\ rx_closed) =>
            /\ spc'[s] = "idle" /\ ~ssusp'[s]
            /\ sret'[s] = SendError(Msg(s, scalls'[s]))
       /\ (OptRecvCalled /\ tx_closed /\ chan = <<>>) =>
            rpc' = "idle" /\ ~rsusp' /\ rret' = None]_vars

\* The send case; the receive case cannot share a state with it (a receive
\* returns None only after every Sender is dropped).
C13_Witness ==
    /\ rx_closed
    /\ \E s \in Senders :
          /\ spc[s] = "idle" /\ sop[s] = "optimistic" /\ ~ssusp[s]
          /\ sret[s] = SendError(CallMsg(s))
          /\ scalls[s] >= 2

C13_WitnessRecv ==
    /\ tx_closed /\ chan = <<>>
    /\ rpc = "idle" /\ rop = "optimistic" /\ ~rsusp /\ rret = None
    /\ Len(received) >= 1

\* --------------------------------------------------------------------- C14
\* C14: no message is lost or duplicated by a send. A call that returned Ok
\* enqueued its message exactly once (also when it first saw Full and took
\* the fallback); a call that returned an error carries its message back and
\* never enqueued it; a call still in progress has enqueued nothing. While
\* the Receiver is alive every enqueued message is still buffered or was
\* returned by exactly one receive.
NoDup(q) == \A i, j \in 1..Len(q) : i # j => q[i] # q[j]

\* The k-th send call of s has returned.
Returned(s, k) == k < scalls[s] \/ (k = scalls[s] /\ spc[s] \in {"idle", "dropped"})

C14_NoLossNoDup ==
    /\ NoDup(enq) /\ NoDup(received)
    /\ IsPrefix(received, enq)
    /\ (~rx_closed => received \o chan = enq)
    /\ \A s \in Senders :
          /\ NoDup(okSent[s])
          /\ \A k \in 1..scalls[s] :
                IF Returned(s, k)
                THEN InSeq(Msg(s, k), okSent[s]) <=> InSeq(Msg(s, k), enq)
                ELSE ~InSeq(Msg(s, k), enq) /\ ~InSeq(Msg(s, k), okSent[s])
          /\ (scalls[s] > 0 /\ Returned(s, scalls[s])) =>
                \/ sret[s] = Ok /\ InSeq(CallMsg(s), enq)
                \/ sret[s] = SendError(CallMsg(s)) /\ ~InSeq(CallMsg(s), enq)

C14_Witness ==
    /\ rx_closed /\ Len(received) >= 1
    /\ \E s, t \in Senders :
          /\ spc[s] = "idle" /\ sret[s] = SendError(CallMsg(s)) /\ Len(okSent[s]) >= 1
          /\ spc[t] = "idle" /\ sop[t] = "optimistic" /\ ssusp[t] /\ sret[t] = Ok

\* --------------------------------------------------------------------- C15
\* C15 (as claimed): whenever, in the gap between the non-blocking attempt
\* and the fallback, the awaited event happens (a message is enqueued or the
\* last Sender dropped, for a receive; a slot is freed or the Receiver
\* dropped, for a send), the call returns.
C15_GapAlwaysReturns ==
    /\ (rpc = "fallback" /\ recv_ready(chan, tx_closed)) ~> (rpc = "idle")
    /\ \A s \in Senders :
          (spc[s] = "fallback" /\ send_ready(chan, cap, rx_closed)) ~> (spc[s] = "idle")

\* No Sender other than s can send any more.
SoleSender(s) == \A t \in Senders \ {s} : spc[t] = "dropped"

\* C15 (amended): the gap loses no wakeup. A receive in its gap whose channel
\* got a message or lost its last Sender returns, Some(head) respectively
\* None. A send in its gap returns the error carrying its message once the
\* Receiver is dropped; once a slot is freed it returns Ok if no other
\* Sender is left to take the slot, and in general it does not stay parked
\* while capacity is free (it returns, or another Sender filled the slot).
C15_GapHarmless ==
    /\ (rpc = "fallback" /\ recv_ready(chan, tx_closed)) ~> (rpc = "idle")
    /\ \A s \in Senders : (spc[s] = "fallback" /\ rx_closed) ~> (spc[s] = "idle")
    /\ \A s \in Senders :
          (spc[s] = "fallback" /\ send_ready(chan, cap, rx_closed) /\ SoleSender(s))
              ~> (spc[s] = "idle")
    /\ \A s \in Senders :
          (spc[s] = "fallback" /\ send_ready(chan, cap, rx_closed))
              ~> (spc[s] = "idle" \/ ~send_ready(chan, cap, rx_closed))
    /\ [][/\ (rpc = "blocked" /\ RecvReturns /\ rop = "optimistic") =>
                IF chan # <<>> THEN rret' = Some(Head(chan)) ELSE tx_closed /\ rret' = None
          /\ \A s \in Senders : (spc[s] = "blocked" /\ SendReturns(s) /\ sop[s] = "optimistic") =>
                IF rx_closed THEN sret'[s] = SendError(CallMsg(s))
                ELSE sret'[s] = Ok /\ chan' = Append(chan, CallMsg(s))]_vars

C15_Witness ==
    /\ rpc = "fallback" /\ chan # <<>>
    /\ \E s \in Senders : spc[s] = "fallback" /\ sdeq[s]

\* --------------------------------------------------------------------- C16
\* C16: terminal outcomes leave the channel untouched. A send (either
\* variant) that returns an error changes neither the buffer nor the closed
\* state; a receive (either variant) that returns None leaves the buffer,
\* which is empty, and the closed state unchanged; a receive that returns
\* Some returns the head, removes exactly the head and changes nothing else.
\* The buffer changes in no other way than by a send returning Ok, a receive
\* returning Some, or the drop of the Receiver.
Closedness == <<tx_closed, rx_closed>>

C16_Frame ==
    [][/\ \A s \in Senders : (SendReturns(s) /\ sret'[s][1] = "SendError") =>
            /\ chan' = chan /\ Closedness' = Closedness
            /\ enq' = enq /\ received' = received /\ okSent' = okSent
       /\ (RecvReturns /\ rret' = None) =>
            /\ chan = <<>> /\ chan' = <<>> /\ Closedness' = Closedness
            /\ enq' = enq /\ received' = received /\ okSent' = okSent
       /\ (RecvReturns /\ rret'[1] = "Some") =>
            /\ chan # <<>> /\ rret' = Some(Head(chan)) /\ chan' = Tail(chan)
            /\ received' = Append(received, Head(chan))
            /\ Closedness' = Closedness /\ cap' = cap
            /\ enq' = enq /\ okSent' = okSent
            /\ spc' = spc /\ smsg' = smsg /\ sret' = sret
       /\ chan' # chan =>
            \/ \E s \in Senders :
                  SendReturns(s) /\ sret'[s] = Ok /\ chan' = Append(chan, Msg(s, scalls'[s]))
            \/ RecvReturns /\ rret' = Some(Head(chan)) /\ chan' = Tail(chan)
            \/ ~rx_closed /\ rx_closed']_vars

C16_Witness ==
    /\ rx_closed
    /\ Len(received) >= 1 /\ Len(enq) > Len(received)
    /\ \E s \in Senders :
          spc[s] = "idle" /\ sop[s] = "blocking" /\ sret[s] = SendError(CallMsg(s))

\* --------------------------------------------------------------------- C17
\* The scenario of test::optimistic_blocking / test::blocking, run
\* concurrently: one producer thread sends through its Sender (each call of
\* either variant) and then drops it; one consumer thread receives (each call
\* of either variant) until it gets None, then drops the Receiver. The other
\* Sender handle is never sent through and is dropped at some point.
Producer == "tx1"

\* The consumer's calls, one per message and one more for None, fit the bound.
ScenarioInit ==
    /\ Init
    /\ MaxRecv > MaxSend

ProducerStep ==
    \/ OptimisticBlockingSend(Producer)
    \/ OptimisticSendFallback(Producer)
    \/ BlockingSend(Producer)
    \/ BlockingSendResolve(Producer)
    \/ DropSender(Producer)

ConsumerStep ==
    \/ rret # None /\ OptimisticBlockingRecv
    \/ OptimisticRecvFallback
    \/ rret # None /\ BlockingRecv
    \/ BlockingRecvResolve
    \/ rret = None /\ DropReceiver

\* The handle that is not used is dropped before anything is sent through it.
DropUnused == \E s \in Senders \ {Producer} : scalls[s] = 0 /\ DropSender(s)

ScenarioNext == ProducerStep \/ ConsumerStep \/ DropUnused

\* Both threads are scheduled again and again; block_on returns once its
\* future can resolve.
ScenarioSpec ==
    /\ ScenarioInit /\ [][ScenarioNext]_vars
    /\ WF_vars(ProducerStep) /\ WF_vars(ConsumerStep) /\ WF_vars(DropUnused)

ScenarioDone == tx_closed /\ rx_closed

\* The messages Msg(Producer, 1) .. Msg(Producer, k), in order.
SentUpTo(k) == [i \in 1..k |-> Msg(Producer, i)]

\* C17: a producer that sends K messages and drops its Sender and a consumer
\* that receives until None both finish, for every capacity, also one below
\* K: no state short of the end is stuck, the end is reached, and at the end
\* the consumer has received all K messages in order, followed by None, every
\* send having returned Ok.
C17_BothFinish ==
    /\ <>ScenarioDone
    /\ [](ScenarioDone \/ ENABLED ScenarioNext)
    /\ [](ScenarioDone =>
            /\ received = SentUpTo(scalls[Producer])
            /\ okSent[Producer] = received
            /\ rret = None /\ chan = <<>>)
    /\ [](rret = None => tx_closed /\ received = SentUpTo(scalls[Producer]))

C17_Witness ==
    /\ ScenarioDone
    /\ cap < scalls[Producer]
    /\ Len(received) = scalls[Producer] /\ rret = None

====
